---- MODULE Spec2Model ----
(***************************************************************************)
(* Diagnosis engine of app_main.py: the rule evaluator check_custom_rules, *)
(* the classifier adapter predict_failure, the fusion of both on the       *)
(* Detailed Analysis page, and the confidence display.                     *)
(*                                                                         *)
(* Numbers are fixed point.  battery_voltage_v and the brake wear values   *)
(* are floats entered with two decimals: they are held in hundredths       *)
(* (12.0 V = 1200, 3 mm = 300).  Probabilities and confidences are held in *)
(* units of 1/PScale (a probability of 0.5 = 5000, a confidence of 50      *)
(* percent = 500000).  Every other vital is an integer in its own unit.    *)
(***************************************************************************)
EXTENDS Integers, Sequences, FiniteSets, TLC

VARIABLES
    files,          \* the .pkl files present on disk at startup
    assets,         \* model, scaler, encoder, training_columns (line 211)
    data,           \* the vitals mapping handed to the engine
    pc,             \* position of the diagnosis flow
    rule_alerts,    \* line 927
    prediction,     \* line 928: label, confidence, distribution
    all_alerts,     \* lines 929-931
    view,           \* lines 933-955: what the page shows
    raised,         \* the exception that escaped the flow, or NoExc
    current_user,   \* st.session_state['current_user'], PyNone when logged out
    page,           \* st.session_state.page, PyNone before the first script run
    screen,         \* the page the last script run rendered to its end
    diagnosis_input,\* st.session_state["diagnosis_input"]
    vitals,         \* the Dashboard widgets at the last Run Diagnosis click
    cache,          \* the entry st.cache_resource keeps for load_model_assets
    oracle,         \* what the unpickled classifier answered, per feature row
    chart,          \* lines 957-971: the probability bars of the page
    report,         \* lines 984-1088: the exported report
    calls           \* calls of predict_failure in the last script run

session == <<current_user, page, screen, diagnosis_input, vitals, cache, oracle, chart, report, calls>>

vars == <<files, assets, data, pc, rule_alerts, prediction, all_alerts, view, raised, session>>

----------------------------------------------------------------------------
(* Python values *)

PyNone == "<None>"
NoExc == "<no exception>"

\* The classes `except Exception` catches: every exception a dict or
\* DataFrame lookup, a comparison or a method call on None can raise.
ExceptionClasses == {"KeyError", "TypeError", "AttributeError", "ValueError"}

Has(d, k) == k \in DOMAIN d

\* dict.get(k, default)
Get(d, k, default) == IF Has(d, k) THEN d[k] ELSE default

----------------------------------------------------------------------------
(* check_custom_rules, lines 304-331 *)

\* The ten `if` statements of the try block, in source order.  op is the
\* comparison of the statement, thr its literal in the model's unit.
RuleTable ==
    << [key |-> "odometer_km",               op |-> ">", thr |-> 300000, label |-> "Maintenance Due / High Mileage Warning"],
       [key |-> "engine_temp_c",             op |-> ">", thr |-> 110,    label |-> "Engine Overheating"],
       [key |-> "battery_voltage_v",         op |-> "<", thr |-> 1200,   label |-> "Battery Failure"],
       [key |-> "oil_pressure_kpa",          op |-> "<", thr |-> 150,    label |-> "Low Oil Pressure Warning"],
       [key |-> "brake_pad_wear_mm_front",   op |-> "brake", thr |-> 300, label |-> "Brake Pads Critically Worn"],
       [key |-> "suspension_health_pct",     op |-> "<", thr |-> 40,     label |-> "Suspension Failure Risk"],
       [key |-> "tire_pressure_psi_fl",      op |-> "<", thr |-> 20,     label |-> "Low Tire Pressure"],
       [key |-> "coolant_level_pct",         op |-> "<", thr |-> 30,     label |-> "Coolant Critically Low"],
       [key |-> "brake_fluid_level_pct",     op |-> "<", thr |-> 20,     label |-> "Brake Fluid Critically Low"],
       [key |-> "transmission_fluid_temp_c", op |-> ">", thr |-> 110,    label |-> "Transmission Overheating"] >>

NRules == Len(RuleTable)

RearKey == "brake_pad_wear_mm_rear"

\* A rear default below the threshold: the rule would fire on every mapping
\* that omits the rear value.
BrakeCondRearDefaultLow(d) ==
    d["brake_pad_wear_mm_front"] < 300 \/ Get(d, RearKey, 299) < 300

\* Line 316: data["brake_pad_wear_mm_front"] < 3 or
\*           data.get("brake_pad_wear_mm_rear", 3) < 3
BrakeCond(d) ==
    d["brake_pad_wear_mm_front"] < 300 \/ Get(d, RearKey, 300) < 300

\* Inclusive comparisons, as a rule written with >= and <= would make.
RuleCondInclusive(r, d) ==
    CASE r.op = ">" -> d[r.key] >= r.thr
      [] r.op = "<" -> d[r.key] <= r.thr
      [] r.op = "brake" -> BrakeCond(d)

\* The condition of one `if`, evaluated when its subscripted key is present.
RuleCond(r, d) ==
    CASE r.op = ">" -> d[r.key] > r.thr
      [] r.op = "<" -> d[r.key] < r.thr
      [] r.op = "brake" -> BrakeCond(d)

\* A block that guards every statement on its own: a missing key skips its
\* statement and the next one is evaluated.
RECURSIVE RunRulesPerRule(_, _, _)
RunRulesPerRule(d, i, alerts) ==
    IF i > NRules THEN [alerts |-> alerts, exc |-> NoExc]
    ELSE IF ~Has(d, RuleTable[i].key) THEN RunRulesPerRule(d, i + 1, alerts)
    ELSE RunRulesPerRule(d, i + 1,
                         IF RuleCond(RuleTable[i], d)
                         THEN Append(alerts, RuleTable[i].label)
                         ELSE alerts)

\* A block with one brake statement for each axle: the label is appended
\* once for a worn front and once more for a worn rear.
RECURSIVE RunRulesBrakePerAxle(_, _, _)
RunRulesBrakePerAxle(d, i, alerts) ==
    IF i > NRules THEN [alerts |-> alerts, exc |-> NoExc]
    ELSE IF ~Has(d, RuleTable[i].key) THEN [alerts |-> alerts, exc |-> "KeyError"]
    ELSE IF RuleTable[i].op = "brake"
    THEN RunRulesBrakePerAxle(d, i + 1,
             alerts \o (IF d["brake_pad_wear_mm_front"] < 300 THEN <<RuleTable[i].label>> ELSE <<>>)
                    \o (IF Get(d, RearKey, 300) < 300 THEN <<RuleTable[i].label>> ELSE <<>>))
    ELSE RunRulesBrakePerAxle(d, i + 1,
                              IF RuleCond(RuleTable[i], d)
                              THEN Append(alerts, RuleTable[i].label)
                              ELSE alerts)

\* The body of the try block from statement i on: data[key] on an absent
\* key raises KeyError, which leaves the block at once.
RECURSIVE RunRules(_, _, _)
RunRules(d, i, alerts) ==
    IF i > NRules THEN [alerts |-> alerts, exc |-> NoExc]
    ELSE IF ~Has(d, RuleTable[i].key) THEN [alerts |-> alerts, exc |-> "KeyError"]
    ELSE RunRules(d, i + 1,
                  IF RuleCond(RuleTable[i], d)
                  THEN Append(alerts, RuleTable[i].label)
                  ELSE alerts)

\* A handler that names one class only: a KeyError passes through it.
RulesHandlerNarrow == {"TypeError"}

\* Line 328: except Exception
RulesHandler == ExceptionClasses

\* The function: the alerts appended so far are returned when the handler
\* catches; an exception the handler does not catch escapes to the caller.
check_custom_rules(d) ==
    LET r == RunRules(d, 1, <<>>)
    IN  IF r.exc = NoExc \/ r.exc \in RulesHandler
        THEN [alerts |-> r.alerts, raised |-> NoExc]
        ELSE [alerts |-> <<>>, raised |-> r.exc]

----------------------------------------------------------------------------
(* Model assets, lines 194-211 *)

AssetNames == <<"model", "scaler", "encoder", "training_columns">>

\* The file each asset is unpickled from, in the order the files are opened.
AssetFile(n) ==
    CASE n = "model" -> "model.pkl"
      [] n = "scaler" -> "scaler.pkl"
      [] n = "encoder" -> "encoder.pkl"
      [] n = "training_columns" -> "training_columns.pkl"

AssetFiles == {AssetFile(AssetNames[i]) : i \in 1..Len(AssetNames)}

NoAssets == [n \in {AssetNames[i] : i \in 1..Len(AssetNames)} |-> PyNone]

\* open() of a missing file raises FileNotFoundError, which the handler
\* turns into four None; otherwise the four unpickled objects are returned.
load_model_assets(present) ==
    IF AssetFiles \subseteq present
    THEN [n \in DOMAIN NoAssets |-> "loaded"]
    ELSE NoAssets

\* bool(x) of an asset: None is falsy, an unpickled estimator, encoder or
\* column list is truthy.
Truthy(x) == x # PyNone

\* encoder.classes_: the labels the classifier was trained on, sorted as a
\* LabelEncoder keeps them.  The content of encoder.pkl is not part of the
\* source; the labels are the ones the fusion step tells apart (line 930).
EncoderClasses == <<"Engine Overheating", "None", "Normal">>

\* The content of training_columns.pkl: the vitals the Dashboard sends
\* (lines 797-808) followed by the two engineered features.
TrainingColumns ==
    << "odometer_km", "engine_temp_c", "battery_voltage_v", "oil_pressure_kpa",
       "brake_pad_wear_mm_front", "brake_pad_wear_mm_rear", "suspension_health_pct",
       "coolant_level_pct", "brake_fluid_level_pct", "fuel_level_pct",
       "transmission_fluid_temp_c", "tire_pressure_psi_fl",
       "temp_pressure_ratio", "total_brake_wear" >>

----------------------------------------------------------------------------
(* predict_failure, lines 333-361 *)

\* Resolution of probabilities and confidences: 1/PScale.
PScale == 10000

SeqMax(s) == CHOOSE m \in {s[i] : i \in DOMAIN s} : \A i \in DOMAIN s : s[i] <= m

SeqSum(s) == LET RECURSIVE Go(_)
                 Go(i) == IF i = 0 THEN 0 ELSE s[i] + Go(i - 1)
             IN  Go(Len(s))

NoProba == <<>>

NoPrediction ==
    [label |-> PyNone, confidence |-> 0, ctype |-> "NoneType", proba |-> NoProba,
     raised |-> NoExc, touched |-> {}, features |-> <<>>]

\* Line 342 inside its try: engine_temp_c / (oil_pressure_kpa + 1e-6), in
\* units of 1/PScale.  The 1e-6 is below the resolution and only keeps a
\* zero pressure from dividing by zero.
TempPressureRatio(d) ==
    IF ~Has(d, "engine_temp_c") \/ ~Has(d, "oil_pressure_kpa") THEN [exc |-> "KeyError", value |-> 0]
    ELSE IF d["oil_pressure_kpa"] = 0 THEN [exc |-> NoExc, value |-> d["engine_temp_c"] * PScale * 1000000]
    ELSE [exc |-> NoExc, value |-> (d["engine_temp_c"] * PScale) \div d["oil_pressure_kpa"]]

\* A sum that reads the rear value with a default of 0 instead of
\* subscripting it: a missing rear value no longer raises.
TotalBrakeWearRearOptional(d) ==
    IF ~Has(d, "brake_pad_wear_mm_front") THEN [exc |-> "KeyError", value |-> 0]
    ELSE [exc |-> NoExc, value |-> d["brake_pad_wear_mm_front"] + Get(d, RearKey, 0)]

\* Line 346 inside its try: front + rear, in hundredths of a millimetre.
TotalBrakeWear(d) ==
    IF ~Has(d, "brake_pad_wear_mm_front") \/ ~Has(d, RearKey) THEN [exc |-> "KeyError", value |-> 0]
    ELSE [exc |-> NoExc, value |-> d["brake_pad_wear_mm_front"] + d[RearKey]]

\* A handler that names one class only: a KeyError passes through it.
FeatureHandlerNarrow == {"ValueError"}

\* Lines 343 and 347: except Exception
FeatureHandler == ExceptionClasses

\* One engineered column: the computed value, 0.0 when the handler caught,
\* or the exception that escaped.
Engineered(f) ==
    IF f.exc = NoExc THEN f
    ELSE IF f.exc \in FeatureHandler THEN [exc |-> NoExc, value |-> 0]
    ELSE f

\* A reindex done before the engineered columns are added: they are
\* absent from the frame and get the fill value.
ReindexBeforeEngineering(d, ratio, wear) ==
    [i \in 1..Len(TrainingColumns) |->
        IF Has(d, TrainingColumns[i]) THEN d[TrainingColumns[i]] ELSE 0]

\* Line 351: reindex(columns=training_columns, fill_value=0) of the one-row
\* frame whose columns are the keys of the input plus the two engineered.
Reindex(d, ratio, wear) ==
    [i \in 1..Len(TrainingColumns) |->
        LET c == TrainingColumns[i]
        IN  IF c = "temp_pressure_ratio" THEN ratio
            ELSE IF c = "total_brake_wear" THEN wear
            ELSE IF Has(d, c) THEN d[c]
            ELSE 0]

\* A guard that is never taken: the body runs with whatever was loaded.
AssetsAvailableAlways(a) == TRUE

\* Line 335: all([model, scaler, encoder, training_columns])
AssetsAvailable(a) == \A i \in 1..Len(AssetNames) : Truthy(a[AssetNames[i]])

\* A sentinel that reports full confidence.
UnavailableResultConfident ==
    [label |-> "Model not loaded", confidence |-> 100 * PScale, ctype |-> "int", proba |-> NoProba,
     raised |-> NoExc, touched |-> {}, features |-> <<>>]

\* Line 336: return "Model not loaded", 0, None
UnavailableResult ==
    [label |-> "Model not loaded", confidence |-> 0, ctype |-> "int", proba |-> NoProba,
     raised |-> NoExc, touched |-> {}, features |-> <<>>]

\* A confidence taken from a probability that was already a percentage.
ConfidenceScaledTwice(proba) == SeqMax(proba) * 100 * 100

\* Line 359: prediction_proba.max() * 100
Confidence(proba) == SeqMax(proba) * 100

\* The function.  a is the four module globals; out is what the classifier
\* answers for the scaled row: out.encoded the class index of
\* model.predict, out.proba the row of model.predict_proba.  touched is the
\* set of assets the call used; a method call on None raises AttributeError.
predict_failure(input_data, a, out) ==
    IF ~AssetsAvailable(a) THEN UnavailableResult
    ELSE
      LET ratio == Engineered(TempPressureRatio(input_data))
          wear  == Engineered(TotalBrakeWear(input_data))
          row   == Reindex(input_data, ratio.value, wear.value)
          fail(e, used, feats) ==
              [label |-> PyNone, confidence |-> 0, ctype |-> "NoneType", proba |-> NoProba,
               raised |-> e, touched |-> used, features |-> feats]
      IN  IF ratio.exc # NoExc THEN fail(ratio.exc, {}, <<>>)
          ELSE IF wear.exc # NoExc THEN fail(wear.exc, {}, <<>>)
          ELSE IF ~Truthy(a["scaler"])
               THEN fail("AttributeError", {"training_columns", "scaler"}, row)
          ELSE IF ~Truthy(a["model"])
               THEN fail("AttributeError", {"training_columns", "scaler", "model"}, row)
          ELSE IF ~Truthy(a["encoder"])
               THEN fail("AttributeError", {"training_columns", "scaler", "model", "encoder"}, row)
          ELSE [label |-> EncoderClasses[out.encoded],
                confidence |-> Confidence(out.proba),
                ctype |-> "np.float64",
                proba |-> out.proba,
                raised |-> NoExc,
                touched |-> {"training_columns", "scaler", "model", "encoder"},
                features |-> row]

----------------------------------------------------------------------------
(* Fusion and display on the Detailed Analysis page, lines 927-955 *)

SeqToSet(s) == {s[i] : i \in DOMAIN s}

\* Line 930: the labels that mean "no issue".
NoIssueLabels == {"None", "Normal"}

\* A fusion that needs more than 50 percent.
FuseExclusive(R, L, c) ==
    IF L \notin NoIssueLabels /\ c > 50 * PScale THEN SeqToSet(R) \union {L} ELSE SeqToSet(R)

\* A fusion that takes the label out again when it is already there.
FuseToggle(R, L, c) ==
    IF L \notin NoIssueLabels /\ c >= 50 * PScale
    THEN IF L \in SeqToSet(R) THEN SeqToSet(R) \ {L} ELSE SeqToSet(R) \union {L}
    ELSE SeqToSet(R)

\* A fusion in which a confident prediction replaces the rule alerts.
FusePredictionOverrides(R, L, c) ==
    IF L \notin NoIssueLabels /\ c >= 50 * PScale THEN {L} ELSE SeqToSet(R)

\* Lines 929-931: all_alerts = set(rule_alerts); the predicted label is
\* added when it is no "no issue" label and confidence >= 50.
Fuse(R, L, c) ==
    IF L \notin NoIssueLabels /\ c >= 50 * PScale THEN SeqToSet(R) \union {L} ELSE SeqToSet(R)

\* f"{confidence:.1f}": the confidence in tenths of a percent, rounded to
\* the nearest tenth, a tie to the even one.
Format1(c) ==
    LET unit == PScale \div 10
        q == c \div unit
        r == c % unit
    IN  IF 2 * r > unit \/ (2 * r = unit /\ q % 2 = 1) THEN q + 1 ELSE q

\* Line 945: isinstance(confidence, (int, float, np.floating, np.integer))
IsNumber(t) == t \in {"int", "float", "np.float64", "np.int64"}

NoView ==
    [normal |-> FALSE, errors |-> {}, metric_label |-> PyNone, metric_value |-> 0,
     multi |-> FALSE, gauge |-> 0]

\* A page that shows the confidence only when the predicted label made it
\* into the alert set.
RenderConfidenceOfAddedLabel(alerts, p) ==
    [normal |-> alerts = {},
     errors |-> alerts,
     metric_label |-> IF alerts # {} THEN "Prediction Confidence" ELSE "Confidence in Normal Status",
     metric_value |-> IF p.label \in alerts THEN Format1(p.confidence) ELSE 0,
     multi |-> Cardinality(alerts) > 1,
     gauge |-> IF IsNumber(p.ctype) /\ p.label \in alerts THEN p.confidence ELSE 0]

\* A page that calls the vehicle normal whenever the classifier's label
\* did not make it into the alert set by its confidence.
RenderNormalByPrediction(alerts, p) ==
    [normal |-> p.label \in NoIssueLabels,
     errors |-> alerts,
     metric_label |-> IF p.label \in NoIssueLabels THEN "Confidence in Normal Status"
                      ELSE "Prediction Confidence",
     metric_value |-> Format1(p.confidence),
     multi |-> Cardinality(alerts) > 1,
     gauge |-> IF IsNumber(p.ctype) THEN p.confidence ELSE 0]

\* Lines 933-948: the alert banners, the metric and the gauge.
Render(alerts, p) ==
    [normal |-> alerts = {},
     errors |-> alerts,
     metric_label |-> IF alerts # {} THEN "Prediction Confidence" ELSE "Confidence in Normal Status",
     metric_value |-> Format1(p.confidence),
     multi |-> Cardinality(alerts) > 1,
     gauge |-> IF IsNumber(p.ctype) THEN p.confidence ELSE 0]

----------------------------------------------------------------------------
(* Inputs *)

\* The vitals the rules read.
VitalKeys == {RuleTable[i].key : i \in 1..NRules} \union {RearKey}

Rule(k) == RuleTable[CHOOSE i \in 1..NRules : RuleTable[i].key = k]

\* The value of a vital exactly on its threshold.
EdgeValue(k) == IF k = RearKey THEN Rule("brake_pad_wear_mm_front").thr ELSE Rule(k).thr

\* The nearest value beyond the threshold, on the alerting side.
AlarmValue(k) ==
    IF k = RearKey THEN EdgeValue(k) - 1
    ELSE IF Rule(k).op = ">" THEN EdgeValue(k) + 1
    ELSE EdgeValue(k) - 1

\* Every mapping over any subset of the vitals K, each present vital on its
\* threshold or just beyond it.
AllVitals(K) ==
    { [k \in {x \in K : c[x] # "absent"} |->
          IF c[k] = "edge" THEN EdgeValue(k) ELSE AlarmValue(k)] :
      c \in [K -> {"absent", "edge", "alarm"}] }

\* The mapping the Dashboard stores with its widgets left at their defaults
\* (lines 788-808); car stands for the selected car's row.
DashboardDefaults ==
    [car |-> 1, odometer_km |-> 50000, engine_temp_c |-> 95, battery_voltage_v |-> 1380,
     oil_pressure_kpa |-> 320, brake_pad_wear_mm_front |-> 750, brake_pad_wear_mm_rear |-> 750,
     suspension_health_pct |-> 85, coolant_level_pct |-> 95, brake_fluid_level_pct |-> 95,
     fuel_level_pct |-> 70, transmission_fluid_temp_c |-> 85, tire_pressure_psi_fl |-> 32]

\* How many vitals of a mapping differ from the Dashboard's defaults.
MaxDev == 2

\* d with the vitals of S changed as c says: dropped, or put beyond the
\* threshold.
Deviate(d, S, c) ==
    [k \in {x \in DOMAIN d : x \notin S \/ c[x] # "absent"} |->
        IF k \notin S THEN d[k] ELSE AlarmValue(k)]

\* The Dashboard's mapping with at most MaxDev vitals dropped or alerting.
CoreVitals ==
    UNION { { Deviate(DashboardDefaults, S, c) : c \in [S -> {"absent", "alarm"}] } :
            S \in {T \in SUBSET VitalKeys : Cardinality(T) <= MaxDev} }

\* The rows predict_proba can return: three probabilities that sum to one.
ProbaLevels == {0, 2, 4999, 5000, PScale}

ProbaRows ==
    {p \in [1..Len(EncoderClasses) -> ProbaLevels] : SeqSum(p) = PScale}

\* What the classifier can answer for one row: the predicted class index
\* and the probability row.
ClassifierOutputs == [encoded : 1..Len(EncoderClasses), proba : ProbaRows]

----------------------------------------------------------------------------
(* The session around the diagnosis: Dashboard, Detailed Analysis, Profile *)

\* A mapping without keys: the state of a session that holds no
\* diagnosis_input (line 893).
NoInput == [k \in {} |-> 0]

\* The accounts of the users table, and the car_id of the rows of the cars
\* table each of them owns (get_cars_for_user, lines 133-142): one user
\* with a car, one without.
Users == {"asha", "ben"}

CarsOf(u) == IF u = "asha" THEN {1} ELSE {}

\* Lines 374 and 384: available_pages.
AvailablePages(user) ==
    IF user # PyNone
    THEN {"Dashboard", "Profile", "Detailed Analysis", "Live Fleet Monitoring", "Contact Us"}
    ELSE {"Home", "Log In", "Sign Up"}

\* A sidebar that leaves the page of the session as it finds it.
NormalisePageKeeps(user, p) == p

\* Lines 378-381 and 386-389: a page outside the list of the login state,
\* a missing one included, becomes Dashboard or Home.
NormalisePage(user, p) ==
    IF p \in AvailablePages(user) THEN p
    ELSE IF user # PyNone THEN "Dashboard" ELSE "Home"

\* Lines 788-792: values of the Quick Vitals widgets, each inside the range
\* of its widget: the defaults, a hot engine, worn brakes, and all five
\* vitals beyond their thresholds.
VitalSettings ==
    { [odometer_km |-> 50000, engine_temp_c |-> 95, battery_voltage_v |-> 1380,
       oil_pressure_kpa |-> 320, brake_wear_front |-> 750],
      [odometer_km |-> 50000, engine_temp_c |-> 111, battery_voltage_v |-> 1380,
       oil_pressure_kpa |-> 320, brake_wear_front |-> 750],
      [odometer_km |-> 50000, engine_temp_c |-> 95, battery_voltage_v |-> 1380,
       oil_pressure_kpa |-> 320, brake_wear_front |-> 299],
      [odometer_km |-> 300001, engine_temp_c |-> 111, battery_voltage_v |-> 1199,
       oil_pressure_kpa |-> 149, brake_wear_front |-> 299] }

\* Lines 783-792: the car picked among the user's cars and the vitals.
DashboardWidgets(user) ==
    { [car |-> c, odometer_km |-> v.odometer_km, engine_temp_c |-> v.engine_temp_c,
       battery_voltage_v |-> v.battery_voltage_v, oil_pressure_kpa |-> v.oil_pressure_kpa,
       brake_wear_front |-> v.brake_wear_front] : c \in CarsOf(user), v \in VitalSettings }

\* A mapping that carries the front brake wear only.
DiagnosisInputFrontOnly(w) ==
    [car |-> w.car, odometer_km |-> w.odometer_km, engine_temp_c |-> w.engine_temp_c,
     battery_voltage_v |-> w.battery_voltage_v, oil_pressure_kpa |-> w.oil_pressure_kpa,
     brake_pad_wear_mm_front |-> w.brake_wear_front,
     suspension_health_pct |-> 85, coolant_level_pct |-> 95, brake_fluid_level_pct |-> 95,
     fuel_level_pct |-> 70, transmission_fluid_temp_c |-> 85, tire_pressure_psi_fl |-> 32]

\* Lines 797-808: the mapping Run Diagnosis builds from the widgets.
DiagnosisInput(w) ==
    [car |-> w.car, odometer_km |-> w.odometer_km, engine_temp_c |-> w.engine_temp_c,
     battery_voltage_v |-> w.battery_voltage_v, oil_pressure_kpa |-> w.oil_pressure_kpa,
     brake_pad_wear_mm_front |-> w.brake_wear_front, brake_pad_wear_mm_rear |-> w.brake_wear_front,
     suspension_health_pct |-> 85, coolant_level_pct |-> 95, brake_fluid_level_pct |-> 95,
     fuel_level_pct |-> 70, transmission_fluid_temp_c |-> 85, tire_pressure_psi_fl |-> 32]

\* A store that keeps the mapping the session already holds.
StoreDiagnosisInputIfAbsent(previous, built) ==
    IF DOMAIN previous = {} THEN built ELSE previous

\* Line 797: st.session_state["diagnosis_input"] = {...}
StoreDiagnosisInput(previous, built) == built

\* Line 193: st.cache_resource runs load_model_assets on the first script
\* run and hands every later run the tuple it returned then.
CacheAfterStart(c, present) == IF c = <<>> THEN <<load_model_assets(present)>> ELSE c

\* Line 695: what the Model text box of the add-car form returns.
ModelTexts == {"", "Corolla"}

\* The row predict_failure hands to the scaler (lines 340-351).
FeatureRow(d) ==
    Reindex(d, Engineered(TempPressureRatio(d)).value, Engineered(TotalBrakeWear(d)).value)

\* What the classifier answers in the session: Engine Overheating at
\* exactly 50 percent, Engine Overheating below 50 percent, Normal for sure.
SessionOutputs ==
    { [encoded |-> 1, proba |-> <<5000, 5000, 0>>],
      [encoded |-> 1, proba |-> <<4999, 4999, 2>>],
      [encoded |-> 3, proba |-> <<0, 0, PScale>>] }

\* A classifier that answers anew on every call.
ClassifyAnew(memo, row, out) == out

\* Lines 354-358: scaler.transform, model.predict and model.predict_proba
\* of fitted estimators are functions of the row: a row seen before gets
\* the answer it got before.
Classify(memo, row, out) == IF row \in DOMAIN memo THEN memo[row] ELSE out

\* Line 958: the frame of the probability chart, one bar for each class;
\* sort_values orders the bars by falling probability and leaves the order
\* of equal ones open, so the chart is held as its set of bars.  A frame
\* whose index does not fit the row raises inside the try (line 969).
ProbaChart(proba, enc) ==
    IF proba = NoProba \/ enc = PyNone \/ Len(proba) # Len(EncoderClasses) THEN {}
    ELSE {<<EncoderClasses[i], proba[i]>> : i \in 1..Len(EncoderClasses)}

\* sorted() of labels: the labels in the order of their code points.
LabelOrder ==
    << "Battery Failure", "Brake Fluid Critically Low", "Brake Pads Critically Worn",
       "Coolant Critically Low", "Engine Overheating", "Low Oil Pressure Warning",
       "Low Tire Pressure", "Maintenance Due / High Mileage Warning", "Model not loaded",
       "None", "Normal", "Suspension Failure Risk", "Transmission Overheating" >>

Sorted(S) == SelectSeq(LabelOrder, LAMBDA x : x \in S)

\* A table that prints the probability itself as if it were a percentage.
ReportTableOfFractions(proba, enc) ==
    IF proba = NoProba \/ enc = PyNone THEN <<>>
    ELSE [i \in 1..Len(EncoderClasses) |-> <<EncoderClasses[i], Format1(proba[i])>>]

\* Lines 1039-1042: one row for each class in the encoder's order, the
\* probability as f"{p*100:.1f}%", held in tenths of a percent.
ReportTable(proba, enc) ==
    IF proba = NoProba \/ enc = PyNone THEN <<>>
    ELSE [i \in 1..Len(EncoderClasses) |-> <<EncoderClasses[i], Format1(proba[i] * 100)>>]

NoReport == [built |-> FALSE, alerts |-> <<>>, table |-> <<>>]

\* Lines 1031-1051: the diagnosis summary and the probability table.
BuildReport(alerts, proba, enc) ==
    [built |-> TRUE, alerts |-> Sorted(alerts), table |-> ReportTable(proba, enc)]

\* A session in which no script run has happened yet: nobody is logged
\* in and st.session_state holds no page.
NoSession ==
    /\ current_user = PyNone
    /\ page = PyNone
    /\ screen = "none"
    /\ diagnosis_input = NoInput
    /\ vitals = NoInput
    /\ cache = <<>>
    /\ oracle = <<>>
    /\ chart = {}
    /\ report = NoReport
    /\ calls = 0

----------------------------------------------------------------------------
(* The diagnosis flow *)

TypeOK ==
    /\ files \subseteq AssetFiles
    /\ pc \in {"load", "rules", "predict", "fuse", "display", "done", "aborted", "idle"}
    /\ raised \in ExceptionClasses \union {NoExc}

Init ==
    /\ files \in SUBSET AssetFiles
    /\ assets = NoAssets
    /\ data \in CoreVitals
    /\ pc = "load"
    /\ rule_alerts = <<>>
    /\ prediction = NoPrediction
    /\ all_alerts = {}
    /\ view = NoView
    /\ raised = NoExc
    /\ NoSession

\* Line 211, at startup.
LoadAssets ==
    /\ pc = "load"
    /\ assets' = load_model_assets(files)
    /\ pc' = "rules"
    /\ UNCHANGED <<files, data, rule_alerts, prediction, all_alerts, view, raised, session>>

\* Line 927.
CheckRules ==
    /\ pc = "rules"
    /\ LET r == check_custom_rules(data)
       IN  /\ rule_alerts' = r.alerts
           /\ raised' = r.raised
           /\ pc' = IF r.raised = NoExc THEN "predict" ELSE "aborted"
    /\ UNCHANGED <<files, assets, data, prediction, all_alerts, view, session>>

\* Line 928.
Predict ==
    /\ pc = "predict"
    /\ \E out \in ClassifierOutputs :
          LET p == predict_failure(data, assets, out)
          IN  /\ prediction' = p
              /\ raised' = p.raised
              /\ pc' = IF p.raised = NoExc THEN "fuse" ELSE "aborted"
    /\ UNCHANGED <<files, assets, data, rule_alerts, all_alerts, view, session>>

\* Lines 929-931.
FuseAlerts ==
    /\ pc = "fuse"
    /\ all_alerts' = Fuse(rule_alerts, prediction.label, prediction.confidence)
    /\ pc' = "display"
    /\ UNCHANGED <<files, assets, data, rule_alerts, prediction, view, raised, session>>

\* Lines 933-955.
Display ==
    /\ pc = "display"
    /\ view' = Render(all_alerts, prediction)
    /\ pc' = "done"
    /\ UNCHANGED <<files, assets, data, rule_alerts, prediction, all_alerts, raised, session>>

Next == LoadAssets \/ CheckRules \/ Predict \/ FuseAlerts \/ Display

Spec == Init /\ [][Next]_vars

\* The rule evaluator alone, on every mapping over the vitals.
InitRules ==
    /\ files = {}
    /\ assets = NoAssets
    /\ data \in AllVitals(VitalKeys)
    /\ pc = "rules"
    /\ rule_alerts = <<>>
    /\ prediction = NoPrediction
    /\ all_alerts = {}
    /\ view = NoView
    /\ raised = NoExc
    /\ NoSession

NextRules == CheckRules

SpecRules == InitRules /\ [][NextRules]_vars

----------------------------------------------------------------------------
(* Script runs of a session.  Every interaction runs the script from its   *)
(* first line in a fresh namespace: line 211 binds the four globals, then  *)
(* the branch of the current page runs.  A run that ends in st.rerun()     *)
(* renders nothing; the next run renders the page the session names.       *)

InitSession ==
    /\ files \in SUBSET AssetFiles
    /\ assets = NoAssets
    /\ data = NoInput
    /\ pc = "idle"
    /\ rule_alerts = <<>>
    /\ prediction = NoPrediction
    /\ all_alerts = {}
    /\ view = NoView
    /\ raised = NoExc
    /\ NoSession

\* Line 211 at the head of a run.
BindAssets ==
    /\ cache' = CacheAfterStart(cache, files)
    /\ assets' = cache'[1]

\* The names a run binds on the Detailed Analysis page only.
NoDiagnosis ==
    /\ data' = NoInput
    /\ rule_alerts' = <<>>
    /\ prediction' = NoPrediction
    /\ all_alerts' = {}
    /\ view' = NoView
    /\ chart' = {}
    /\ report' = NoReport

\* A run that diagnoses nothing.
NoAnalysis ==
    /\ BindAssets
    /\ NoDiagnosis
    /\ raised' = NoExc /\ pc' = "idle" /\ calls' = 0
    /\ UNCHANGED <<files, oracle>>

\* Line 410: the page the if/elif chain of a run dispatches on, after the
\* sidebar has normalised it.
Dispatched == NormalisePage(current_user, page)

\* Lines 371-372: the Logout button of the sidebar; logout_user (lines
\* 186-190) pops current_user and full_name and sets the page.
Logout ==
    /\ screen # "none"
    /\ current_user # PyNone
    /\ current_user' = PyNone
    /\ page' = "Home"
    /\ screen' = "none"
    /\ NoAnalysis
    /\ UNCHANGED <<diagnosis_input, vitals>>

\* Lines 630-649: the login form with the credentials of an account;
\* login_user (lines 179-184).
Login ==
    /\ screen = "Log In"
    /\ \E u \in Users : current_user' = u
    /\ page' = "Dashboard"
    /\ screen' = "none"
    /\ NoAnalysis
    /\ UNCHANGED <<diagnosis_input, vitals>>

\* Lines 529-532: Get Started on the Home page.
GetStarted ==
    /\ screen = "Home"
    /\ page' = "Sign Up"
    /\ screen' = "none"
    /\ NoAnalysis
    /\ UNCHANGED <<current_user, diagnosis_input, vitals>>

\* Lines 617-623: the sign-up form, accepted.
SignUp ==
    /\ screen = "Sign Up"
    /\ page' = "Log In"
    /\ screen' = "none"
    /\ NoAnalysis
    /\ UNCHANGED <<current_user, diagnosis_input, vitals>>

\* Lines 394-402: another page is picked in the sidebar.
Navigate ==
    /\ screen # "none"
    /\ \E target \in AvailablePages(current_user) \ {Dispatched} : page' = target
    /\ screen' = "none"
    /\ NoAnalysis
    /\ UNCHANGED <<current_user, diagnosis_input, vitals>>

\* Home, Log In, Sign Up, Live Fleet Monitoring and Contact Us without a
\* click that changes the page.
RenderPlain ==
    /\ Dispatched \notin {"Dashboard", "Profile", "Detailed Analysis"}
    /\ page' = Dispatched
    /\ screen' = Dispatched
    /\ NoAnalysis
    /\ UNCHANGED <<current_user, diagnosis_input, vitals>>

\* Lines 741-831 without a click.
RenderDashboard ==
    /\ Dispatched = "Dashboard"
    /\ page' = Dispatched
    /\ screen' = "Dashboard"
    /\ NoAnalysis
    /\ UNCHANGED <<current_user, diagnosis_input, vitals>>

\* Lines 768-773: the Dashboard of a user without cars leads to Profile.
GoToProfile ==
    /\ Dispatched = "Dashboard" /\ screen = "Dashboard"
    /\ current_user # PyNone /\ CarsOf(current_user) = {}
    /\ page' = "Profile"
    /\ screen' = "none"
    /\ NoAnalysis
    /\ UNCHANGED <<current_user, diagnosis_input, vitals>>

\* Lines 794-811: Run Diagnosis with the widgets at w.
RunDiagnosis ==
    /\ Dispatched = "Dashboard" /\ screen = "Dashboard"
    /\ current_user # PyNone
    /\ \E w \in DashboardWidgets(current_user) :
          /\ vitals' = w
          /\ diagnosis_input' = StoreDiagnosisInput(diagnosis_input, DiagnosisInput(w))
    /\ page' = "Detailed Analysis"
    /\ screen' = "none"
    /\ NoAnalysis
    /\ UNCHANGED current_user

\* Lines 653-739: the Profile page; line 695 binds the global name model
\* to the text of the form's Model box.
RenderProfile ==
    /\ Dispatched = "Profile"
    /\ current_user # PyNone
    /\ page' = Dispatched
    /\ screen' = "Profile"
    /\ cache' = CacheAfterStart(cache, files)
    /\ \E text \in ModelTexts : assets' = [cache'[1] EXCEPT !["model"] = text]
    /\ NoDiagnosis
    /\ raised' = NoExc /\ pc' = "idle" /\ calls' = 0
    /\ UNCHANGED <<files, current_user, diagnosis_input, vitals, oracle>>

\* Lines 892-1094: a run of the Detailed Analysis page.  button is the one
\* pressed on the page shown before, "none" for a run without a click.
AnalysisRun(button) ==
    /\ Dispatched = "Detailed Analysis"
    /\ BindAssets
    /\ IF DOMAIN diagnosis_input = {}
       THEN /\ NoDiagnosis
            /\ raised' = NoExc /\ pc' = "idle" /\ calls' = 0
            /\ page' = IF button = "back" THEN "Dashboard" ELSE Dispatched
            /\ screen' = IF button = "back" THEN "none" ELSE "Detailed Analysis"
            /\ oracle' = oracle
       ELSE \E out \in SessionOutputs :
              LET d == diagnosis_input
                  r == check_custom_rules(d)
                  row == FeatureRow(d)
                  p == IF r.raised = NoExc
                       THEN predict_failure(d, assets', Classify(oracle, row, out))
                       ELSE NoPrediction
                  halted == IF r.raised # NoExc THEN r.raised ELSE p.raised
                  fused == Fuse(r.alerts, p.label, p.confidence)
                  left == button = "back" /\ halted = NoExc
              IN  /\ calls' = IF r.raised = NoExc THEN 1 ELSE 0
                  /\ oracle' = IF p.proba # NoProba /\ row \notin DOMAIN oracle
                               THEN oracle @@ (row :> out)
                               ELSE oracle
                  /\ raised' = halted
                  /\ pc' = IF halted # NoExc THEN "aborted" ELSE IF left THEN "idle" ELSE "done"
                  /\ page' = IF left THEN "Dashboard" ELSE Dispatched
                  /\ screen' = IF left THEN "none" ELSE "Detailed Analysis"
                  /\ IF left \/ halted # NoExc
                     THEN NoDiagnosis
                     ELSE /\ data' = d
                          /\ rule_alerts' = r.alerts
                          /\ prediction' = p
                          /\ all_alerts' = fused
                          /\ view' = Render(fused, p)
                          /\ chart' = ProbaChart(p.proba, assets'["encoder"])
                          /\ report' = IF button = "download"
                                       THEN BuildReport(fused, p.proba, assets'["encoder"])
                                       ELSE NoReport
    /\ UNCHANGED <<files, current_user, diagnosis_input, vitals>>

RenderAnalysis == AnalysisRun("none")

\* Line 984: the button of a page that shows a diagnosis.
DownloadReport ==
    /\ screen = "Detailed Analysis" /\ pc = "done"
    /\ AnalysisRun("download")

\* Lines 895 and 1092.
BackToDashboard ==
    /\ screen = "Detailed Analysis" /\ pc # "aborted"
    /\ AnalysisRun("back")

NextSession ==
    \/ Logout
    \/ Login
    \/ GetStarted
    \/ SignUp
    \/ Navigate
    \/ RenderPlain
    \/ RenderDashboard
    \/ GoToProfile
    \/ RunDiagnosis
    \/ RenderProfile
    \/ RenderAnalysis
    \/ DownloadReport
    \/ BackToDashboard

SpecSession == InitSession /\ [][NextSession]_vars

----------------------------------------------------------------------------
(* Properties of the rule evaluator, stated for SpecRules *)

AlertLabels == {RuleTable[i].label : i \in 1..NRules}

RulesDone == pc # "rules"

RuleKeysOf == {RuleTable[i].key : i \in 1..NRules}

\* The threshold table as section 4.1 of the specification states it, for a
\* mapping d that holds the vital each row reads.
TableHolds(label, d) ==
    CASE label = "Maintenance Due / High Mileage Warning" -> d["odometer_km"] > 300000
      [] label = "Engine Overheating" -> d["engine_temp_c"] > 110
      [] label = "Battery Failure" -> d["battery_voltage_v"] < 1200
      [] label = "Low Oil Pressure Warning" -> d["oil_pressure_kpa"] < 150
      [] label = "Brake Pads Critically Worn" ->
            d["brake_pad_wear_mm_front"] < 300 \/ (Has(d, RearKey) /\ d[RearKey] < 300)
      [] label = "Suspension Failure Risk" -> d["suspension_health_pct"] < 40
      [] label = "Low Tire Pressure" -> d["tire_pressure_psi_fl"] < 20
      [] label = "Coolant Critically Low" -> d["coolant_level_pct"] < 30
      [] label = "Brake Fluid Critically Low" -> d["brake_fluid_level_pct"] < 20
      [] label = "Transmission Overheating" -> d["transmission_fluid_temp_c"] > 110

\* C2: with every required key present, check_custom_rules returns exactly
\* the labels of the table rows whose condition holds and no others, so
\* whether a row's label is returned depends on that row's vital alone.
C2_ExactlyTheRowsThatHold ==
    (RulesDone /\ RuleKeysOf \subseteq DOMAIN data) =>
        /\ SeqToSet(rule_alerts) \subseteq AlertLabels
        /\ \A i \in 1..NRules :
              RuleTable[i].label \in SeqToSet(rule_alerts) <=> TableHolds(RuleTable[i].label, data)

\* All keys present, only the engine temperature beyond its threshold: the
\* result is that one alert.
C2_Witness ==
    /\ RulesDone
    /\ DOMAIN data = VitalKeys
    /\ data["engine_temp_c"] = 111
    /\ data["battery_voltage_v"] = 1200
    /\ rule_alerts = <<"Engine Overheating">>

\* C3: with a required key absent, only the check that reads it is skipped:
\* every other rule whose key is present has its alert in the result if and
\* only if its condition holds, wherever the missing key sits in the table.
C3_OnlyTheMissingCheckSkipped ==
    RulesDone =>
        \A i \in 1..NRules :
            Has(data, RuleTable[i].key) =>
                (RuleTable[i].label \in SeqToSet(rule_alerts) <=> TableHolds(RuleTable[i].label, data))

\* C7: with the rear brake value absent and every other key present, the
\* brake alert is returned if and only if the front value is below 3 mm.
C7_RearDefaultDoesNotAlert ==
    (RulesDone /\ DOMAIN data = VitalKeys \ {RearKey}) =>
        ("Brake Pads Critically Worn" \in SeqToSet(rule_alerts) <=> data["brake_pad_wear_mm_front"] < 300)

\* Rear omitted, front not below 3 mm: no brake alert.
C7_Witness ==
    /\ RulesDone
    /\ DOMAIN data = VitalKeys \ {RearKey}
    /\ data["brake_pad_wear_mm_front"] >= 300
    /\ "Brake Pads Critically Worn" \notin SeqToSet(rule_alerts)

\* The safe band of each vital, its threshold included.
InSafeBand(k, v) ==
    CASE k = "odometer_km" -> v <= 300000
      [] k = "engine_temp_c" -> v <= 110
      [] k = "battery_voltage_v" -> v >= 1200
      [] k = "oil_pressure_kpa" -> v >= 150
      [] k = "brake_pad_wear_mm_front" -> v >= 300
      [] k = "brake_pad_wear_mm_rear" -> v >= 300
      [] k = "suspension_health_pct" -> v >= 40
      [] k = "tire_pressure_psi_fl" -> v >= 20
      [] k = "coolant_level_pct" -> v >= 30
      [] k = "brake_fluid_level_pct" -> v >= 20
      [] k = "transmission_fluid_temp_c" -> v <= 110

\* C8: a mapping whose every value is within its safe band, a value exactly
\* on its threshold included, yields no alert.
C8_SafeBandIsSilent ==
    (RulesDone /\ \A k \in DOMAIN data : InSafeBand(k, data[k])) => rule_alerts = <<>>

\* Every vital present and exactly on its threshold: the result is empty.
C8_Witness ==
    /\ RulesDone
    /\ DOMAIN data = VitalKeys
    /\ data["odometer_km"] = 300000 /\ data["engine_temp_c"] = 110
    /\ data["battery_voltage_v"] = 1200 /\ data["oil_pressure_kpa"] = 150
    /\ data["brake_pad_wear_mm_front"] = 300 /\ data["brake_pad_wear_mm_rear"] = 300
    /\ data["suspension_health_pct"] = 40 /\ data["tire_pressure_psi_fl"] = 20
    /\ data["coolant_level_pct"] = 30 /\ data["brake_fluid_level_pct"] = 20
    /\ data["transmission_fluid_temp_c"] = 110
    /\ rule_alerts = <<>>

\* C9: check_custom_rules never raises: on a mapping over any subset of the
\* keys, the empty one included, no exception escapes and a collection of
\* alert labels is returned, so the flow goes on to the prediction.
C9_RulesNeverRaise ==
    RulesDone =>
        /\ raised = NoExc
        /\ pc = "predict"
        /\ SeqToSet(rule_alerts) \subseteq AlertLabels

\* The empty mapping: evaluated, nothing raised, no alert.
C9_Witness ==
    /\ RulesDone
    /\ DOMAIN data = {}
    /\ raised = NoExc
    /\ rule_alerts = <<>>

----------------------------------------------------------------------------
(* Properties of the prediction, the fusion and the display, stated for     *)
(* Spec                                                                    *)

Predicted == pc \in {"fuse", "display", "done", "aborted"}

Fused == pc \in {"display", "done"}

SomeAssetMissing == \E n \in DOMAIN assets : assets[n] = PyNone

AllAssetsLoaded == \A n \in DOMAIN assets : assets[n] # PyNone

FiftyPercent == 50 * PScale

\* C1: the final alert set is the rule alerts plus the predicted label when
\* the label is neither "None" nor "Normal" and the confidence is at least
\* 50, 50 itself included; in every other case it is the rule alerts.
C1_FusionPolicy ==
    Fused =>
        /\ (prediction.label # "None" /\ prediction.label # "Normal"
                /\ prediction.confidence >= FiftyPercent)
              => all_alerts = SeqToSet(rule_alerts) \union {prediction.label}
        /\ (prediction.label = "None" \/ prediction.label = "Normal"
                \/ prediction.confidence < FiftyPercent)
              => all_alerts = SeqToSet(rule_alerts)

\* A failure label predicted with a confidence of exactly 50 and not raised
\* by any rule: it is in the final set.
C1_Witness ==
    /\ pc = "done"
    /\ prediction.label = "Engine Overheating"
    /\ prediction.confidence = FiftyPercent
    /\ "Engine Overheating" \notin SeqToSet(rule_alerts)
    /\ "Engine Overheating" \in all_alerts

\* C4: when an asset is unavailable after startup, predict_failure returns
\* the "no prediction" result, confidence 0 and no distribution, raises
\* nothing and uses none of the assets.
C4_UnavailableIsNoPrediction ==
    (Predicted /\ SomeAssetMissing) =>
        /\ prediction.confidence = 0
        /\ prediction.proba = NoProba
        /\ prediction.touched = {}
        /\ prediction.raised = NoExc
        /\ raised = NoExc
        /\ pc # "aborted"

\* Only scaler.pkl is missing: the call returned the sentinel.
C4_Witness ==
    /\ pc = "done"
    /\ files = AssetFiles \ {"scaler.pkl"}
    /\ SomeAssetMissing
    /\ prediction.label = "Model not loaded"
    /\ prediction.confidence = 0

\* C5: with the model unavailable the final alert set is exactly the rule
\* evaluator's, the confidence of the verdict is 0, and "Model not loaded"
\* is never an alert.
C5_UnavailableEndToEnd ==
    (pc = "done" /\ SomeAssetMissing) =>
        /\ all_alerts = SeqToSet(rule_alerts)
        /\ view.errors = SeqToSet(rule_alerts)
        /\ prediction.confidence = 0
        /\ view.gauge = 0
        /\ view.metric_value = 0
        /\ "Model not loaded" \notin all_alerts

\* The end-to-end scenario of section 8: a high odometer, everything else
\* safe, no model: the one mileage alert and a confidence of 0.
C5_Witness ==
    /\ pc = "done"
    /\ SomeAssetMissing
    /\ DOMAIN data = DOMAIN DashboardDefaults
    /\ data["odometer_km"] > 300000
    /\ all_alerts = {"Maintenance Due / High Mileage Warning"}
    /\ view.gauge = 0

\* C6: the confidence the page shows is the one predict_failure returned,
\* whether or not the predicted label was added to the alert set: the gauge
\* holds it exactly and the metric holds it to the one decimal it prints.
C6_ConfidenceIsTheClassifiers ==
    pc = "done" =>
        /\ view.gauge = prediction.confidence
        /\ 2 * (view.metric_value * (PScale \div 10) - prediction.confidence) <= PScale \div 10
        /\ 2 * (prediction.confidence - view.metric_value * (PScale \div 10)) <= PScale \div 10

\* A failure label predicted below 50 and so not added: the gauge still
\* holds the classifier's confidence.
C6_Witness ==
    /\ pc = "done"
    /\ prediction.label = "Engine Overheating"
    /\ prediction.label \notin all_alerts
    /\ prediction.confidence = 4999 * 100
    /\ view.gauge = 4999 * 100
    /\ view.metric_value = 500

\* C10: with the assets loaded, predict_failure on a mapping that lacks a
\* numeric field raises nothing and returns a label, a confidence that is a
\* number, and a distribution.
C10_MissingFieldDoesNotRaise ==
    (Predicted /\ AllAssetsLoaded /\ ~(VitalKeys \subseteq DOMAIN data)) =>
        /\ prediction.raised = NoExc
        /\ raised = NoExc
        /\ pc # "aborted"
        /\ prediction.label \in SeqToSet(EncoderClasses)
        /\ IsNumber(prediction.ctype)
        /\ prediction.confidence = SeqMax(prediction.proba) * 100
        /\ prediction.proba # NoProba

\* engine_temp_c and brake_pad_wear_mm_front both missing, so both
\* engineered features fell back: a prediction came out.
C10_Witness ==
    /\ pc = "done"
    /\ AllAssetsLoaded
    /\ ~Has(data, "engine_temp_c")
    /\ ~Has(data, "brake_pad_wear_mm_front")
    /\ prediction.raised = NoExc
    /\ prediction.proba # NoProba

\* C11: the confidence predict_failure returns lies within 0 and 100
\* percent, both when the classifier answered (its largest class
\* probability times 100) and when the model is unavailable (0).
C11_ConfidenceWithinPercent ==
    Predicted =>
        /\ prediction.confidence >= 0
        /\ prediction.confidence <= 100 * PScale
        /\ SomeAssetMissing => prediction.confidence = 0
        /\ (AllAssetsLoaded /\ prediction.raised = NoExc) =>
              \E i \in DOMAIN prediction.proba :
                  /\ prediction.confidence = prediction.proba[i] * 100
                  /\ \A j \in DOMAIN prediction.proba : prediction.proba[j] <= prediction.proba[i]

\* The classifier put all the probability on one class: the confidence is
\* the upper end, 100 percent.
C11_Witness ==
    /\ pc = "done"
    /\ AllAssetsLoaded
    /\ prediction.confidence = 100 * PScale

\* The position of a training column in the feature row.
ColIndex(c) == CHOOSE i \in 1..Len(TrainingColumns) : TrainingColumns[i] = c

Classified == Predicted /\ AllAssetsLoaded

\* C16: when engine_temp_c or oil_pressure_kpa is missing,
\* temp_pressure_ratio is 0; when a brake wear value is missing,
\* total_brake_wear is 0; each feature falls back on its own inputs alone,
\* and the prediction goes on to the classifier instead of aborting.
C16_EngineeredFallback ==
    Classified =>
        /\ prediction.raised = NoExc /\ raised = NoExc /\ pc # "aborted"
        /\ prediction.proba # NoProba
        /\ prediction.features[ColIndex("temp_pressure_ratio")] =
              IF Has(data, "engine_temp_c") /\ Has(data, "oil_pressure_kpa")
              THEN (data["engine_temp_c"] * PScale) \div data["oil_pressure_kpa"]
              ELSE 0
        /\ prediction.features[ColIndex("total_brake_wear")] =
              IF Has(data, "brake_pad_wear_mm_front") /\ Has(data, "brake_pad_wear_mm_rear")
              THEN data["brake_pad_wear_mm_front"] + data["brake_pad_wear_mm_rear"]
              ELSE 0

\* The rear brake value is missing and the engine values are not: the wear
\* fell back to 0, the ratio did not, and the classifier answered.
C16_Witness ==
    /\ pc = "done"
    /\ AllAssetsLoaded
    /\ ~Has(data, "brake_pad_wear_mm_rear") /\ Has(data, "brake_pad_wear_mm_front")
    /\ Has(data, "engine_temp_c") /\ Has(data, "oil_pressure_kpa")
    /\ prediction.features[ColIndex("total_brake_wear")] = 0
    /\ prediction.features[ColIndex("temp_pressure_ratio")] > 0
    /\ prediction.proba # NoProba

\* C17: the row handed to the scaler has the training columns in the
\* training order: a column the input or the feature engineering provides
\* carries that value, a column the input lacks is 0, and an input key that
\* is no training column, such as car, has no place in the row.
C17_RowAlignedToTrainingColumns ==
    Classified =>
        /\ Len(prediction.features) = Len(TrainingColumns)
        /\ \A i \in 1..Len(TrainingColumns) :
              LET c == TrainingColumns[i]
              IN  /\ Has(data, c) => prediction.features[i] = data[c]
                  /\ (~Has(data, c) /\ c \notin {"temp_pressure_ratio", "total_brake_wear"})
                        => prediction.features[i] = 0
        /\ (Has(data, "brake_pad_wear_mm_front") /\ Has(data, "brake_pad_wear_mm_rear")) =>
              prediction.features[ColIndex("total_brake_wear")]
                  = data["brake_pad_wear_mm_front"] + data["brake_pad_wear_mm_rear"]
        /\ \A k \in DOMAIN data :
              k \notin SeqToSet(TrainingColumns) =>
                  Len(prediction.features) < Cardinality(DOMAIN data \union SeqToSet(TrainingColumns))

\* The input holds car and lacks coolant_level_pct: the row has one entry
\* per training column, 0 for the coolant level, the odometer in its place.
C17_Witness ==
    /\ pc = "done"
    /\ AllAssetsLoaded
    /\ Has(data, "car")
    /\ ~Has(data, "coolant_level_pct")
    /\ Len(prediction.features) = Len(TrainingColumns)
    /\ prediction.features[ColIndex("coolant_level_pct")] = 0
    /\ prediction.features[ColIndex("odometer_km")] = data["odometer_km"]
    /\ prediction.features[ColIndex("total_brake_wear")] > 0

\* The elements of a finite set in some order.
RECURSIVE SetToSeq(_)
SetToSeq(S) ==
    IF S = {} THEN <<>>
    ELSE LET x == CHOOSE y \in S : TRUE
         IN  <<x>> \o SetToSeq(S \ {x})

\* C18: fusing the prediction into an alert set that already resulted from
\* fusing it changes nothing, and the confidence of the verdict is the
\* prediction's both times.
C18_FusionIdempotent ==
    Fused =>
        /\ Fuse(SetToSeq(all_alerts), prediction.label, prediction.confidence) = all_alerts
        /\ Fuse(SetToSeq(Fuse(SetToSeq(all_alerts), prediction.label, prediction.confidence)),
                prediction.label, prediction.confidence) = all_alerts

\* The predicted label was added by the first fusion, next to a rule alert.
C18_Witness ==
    /\ pc = "done"
    /\ prediction.label = "Engine Overheating"
    /\ prediction.confidence >= FiftyPercent
    /\ "Engine Overheating" \notin SeqToSet(rule_alerts)
    /\ all_alerts = SeqToSet(rule_alerts) \union {"Engine Overheating"}
    /\ rule_alerts # <<>>

\* C20: the final set holds every rule alert and at most one more label;
\* when the classifier's label is one a rule raised, the set holds it once
\* and is as large as the set of distinct rule alerts.
C20_RulesPlusAtMostOne ==
    Fused =>
        /\ SeqToSet(rule_alerts) \subseteq all_alerts
        /\ Cardinality(all_alerts \ SeqToSet(rule_alerts)) <= 1
        /\ all_alerts \ SeqToSet(rule_alerts) \subseteq {prediction.label}
        /\ prediction.label \in SeqToSet(rule_alerts) =>
              Cardinality(all_alerts) = Cardinality(SeqToSet(rule_alerts))

\* The engine rule fired, the classifier confidently predicted the same
\* label, and another rule fired too: two alerts, not three.
C20_Witness ==
    /\ pc = "done"
    /\ prediction.label = "Engine Overheating"
    /\ prediction.confidence >= FiftyPercent
    /\ "Engine Overheating" \in SeqToSet(rule_alerts)
    /\ Len(rule_alerts) = 2
    /\ Cardinality(all_alerts) = 2

\* C21: the page says NORMAL exactly when the final alert set is empty,
\* and then labels the confidence as confidence in normal status, whatever
\* the classifier predicted; otherwise it shows every alert of the set,
\* and warns of multiple issues exactly when the set has more than one.
C21_NormalIffNoAlerts ==
    pc = "done" =>
        /\ view.normal <=> all_alerts = {}
        /\ all_alerts = {} => /\ view.metric_label = "Confidence in Normal Status"
                              /\ ~view.multi
        /\ all_alerts # {} => /\ view.errors = all_alerts
                              /\ view.metric_label = "Prediction Confidence"
        /\ view.multi <=> Cardinality(all_alerts) > 1

\* The classifier predicted Engine Overheating below 50 percent, no rule
\* fired, and the page says NORMAL.
C21_Witness ==
    /\ pc = "done"
    /\ prediction.label = "Engine Overheating"
    /\ prediction.confidence > 0 /\ prediction.confidence < FiftyPercent
    /\ all_alerts = {}
    /\ view.normal
    /\ view.metric_label = "Confidence in Normal Status"

----------------------------------------------------------------------------
(* The single handler of the rule evaluator, stated for SpecRules *)

\* The first statement of the table whose key the mapping lacks, or one
\* past the table when it lacks none.
FirstMissing(d) ==
    IF \A i \in 1..NRules : Has(d, RuleTable[i].key) THEN NRules + 1
    ELSE CHOOSE i \in 1..NRules :
            /\ ~Has(d, RuleTable[i].key)
            /\ \A j \in 1..(i - 1) : Has(d, RuleTable[j].key)

LabelIndex(l) == CHOOSE i \in 1..NRules : RuleTable[i].label = l

\* How often a label occurs in a list of alerts.
Occurrences(s, l) == Cardinality({i \in DOMAIN s : s[i] = l})

\* C22: the alerts come in table order, none of them twice; when the brake
\* statement is reached, "Brake Pads Critically Worn" is there exactly once
\* if the front value, the rear value or both are below 3 mm, and not at
\* all otherwise.
C22_OncePerLabelInTableOrder ==
    RulesDone =>
        /\ \A a, b \in DOMAIN rule_alerts :
              a < b => LabelIndex(rule_alerts[a]) < LabelIndex(rule_alerts[b])
        /\ \A l \in AlertLabels : Occurrences(rule_alerts, l) <= 1
        /\ FirstMissing(data) > LabelIndex("Brake Pads Critically Worn") =>
              Occurrences(rule_alerts, "Brake Pads Critically Worn") =
                  IF \/ data["brake_pad_wear_mm_front"] < 300
                     \/ (Has(data, RearKey) /\ data[RearKey] < 300)
                  THEN 1 ELSE 0

\* Front and rear are both below 3 mm and an earlier and a later rule fire
\* too: the brake alert stands once, between them.
C22_Witness ==
    /\ RulesDone
    /\ Has(data, RearKey) /\ data[RearKey] < 300
    /\ Has(data, "brake_pad_wear_mm_front") /\ data["brake_pad_wear_mm_front"] < 300
    /\ Len(rule_alerts) = 3
    /\ rule_alerts[1] = "Engine Overheating"
    /\ rule_alerts[2] = "Brake Pads Critically Worn"
    /\ rule_alerts[3] = "Low Tire Pressure"

----------------------------------------------------------------------------
(* Properties of the session, stated for SpecSession *)

\* The page shows the verdict of a diagnosis.
VerdictShown == screen = "Detailed Analysis" /\ pc = "done"

FreshVerdict(w) ==
    LET d == DiagnosisInput(w)
        a == load_model_assets(files)
        p == IF FeatureRow(d) \in DOMAIN oracle
             THEN predict_failure(d, a, oracle[FeatureRow(d)])
             ELSE UnavailableResult
    IN  [alerts |-> {l \in AlertLabels : TableHolds(l, d)}
                        \union (IF p.label \notin NoIssueLabels /\ p.confidence >= FiftyPercent
                                THEN {p.label} ELSE {}),
         confidence |-> p.confidence]

\* C13: whatever was diagnosed and rendered before, the verdict on the
\* page is the one of the widget values of the most recent Run Diagnosis,
\* as a session that ran nothing else shows it.
C13_VerdictOfLatestVitalsOnly ==
    VerdictShown =>
        /\ DOMAIN vitals # {}
        /\ all_alerts = FreshVerdict(vitals).alerts
        /\ prediction.confidence = FreshVerdict(vitals).confidence
        /\ view.errors = FreshVerdict(vitals).alerts

\* The page shows a clean verdict for quiet vitals after another run of
\* the session had diagnosed an overheating engine with worn brakes.
C13_Witness ==
    /\ VerdictShown
    /\ files = AssetFiles
    /\ vitals.engine_temp_c = 95 /\ vitals.brake_wear_front = 750
    /\ all_alerts = {}
    /\ \E row \in DOMAIN oracle : row[ColIndex("engine_temp_c")] = 111
                                  /\ row[ColIndex("brake_pad_wear_mm_front")] = 299

\* C14: once the assets are loaded, the four globals predict_failure reads
\* are the objects load_model_assets returned, after every script run of
\* every page, the Profile page with its Model text box included.
C14_GlobalsAreTheLoadedAssets ==
    cache # <<>> => /\ cache = <<load_model_assets(files)>>
                    /\ assets = cache[1]

\* C15: the report lists the alerts the page shows and the probabilities
\* the chart draws, each as a percentage with one decimal, and the run that
\* built both called predict_failure once.
C15_ReportIsTheViewsVerdict ==
    report.built =>
        /\ calls = 1
        /\ SeqToSet(report.alerts) = view.errors
        /\ Len(report.alerts) = Cardinality(view.errors)
        /\ Len(report.table) = Cardinality(chart)
        /\ \A i \in DOMAIN report.table :
              \E bar \in chart : /\ bar[1] = report.table[i][1]
                                 /\ report.table[i][2] = Format1(bar[2] * 100)
        /\ \A bar \in chart : \E i \in DOMAIN report.table : report.table[i][1] = bar[1]

\* A report with two alerts, one of them the classifier's, and a table of
\* three probabilities of which one prints as 50.0%.
C15_Witness ==
    /\ report.built
    /\ Len(report.alerts) = 2
    /\ prediction.label \in all_alerts
    /\ prediction.label \notin SeqToSet(rule_alerts)
    /\ Len(report.table) = 3
    /\ \E i \in DOMAIN report.table : report.table[i][2] = 500

\* C23: a diagnosis on the page was requested by the user who is logged in
\* now, for one of that user's cars: nothing stored before a logout is
\* evaluated or shown after it.
C23_ShownDiagnosisIsTheUsersOwn ==
    VerdictShown =>
        /\ current_user # PyNone
        /\ data["car"] \in CarsOf(current_user)

LoggedOutPages == {"Home", "Log In", "Sign Up"}

LoggedInPages ==
    {"Dashboard", "Profile", "Detailed Analysis", "Live Fleet Monitoring", "Contact Us"}

\* C24: the page a script run renders belongs to the list of the login
\* state: a page of the logged-out list when nobody is logged in, a page of
\* the logged-in list otherwise; the page the session names while a rerun
\* is pending belongs to the same list.
C24_PageMatchesLoginState ==
    /\ screen # "none" =>
          IF current_user = PyNone THEN screen \in LoggedOutPages ELSE screen \in LoggedInPages
    /\ (screen = "none" /\ page # PyNone) =>
          IF current_user = PyNone THEN page \in LoggedOutPages ELSE page \in LoggedInPages

\* A session that has run a diagnosis and logged out shows the Log In page.
C24_Witness ==
    /\ current_user = PyNone
    /\ DOMAIN diagnosis_input # {}
    /\ screen = "Log In"

\* The five labels whose vitals the Dashboard lets the user set.
DashboardLabels ==
    { "Maintenance Due / High Mileage Warning", "Engine Overheating", "Battery Failure",
      "Low Oil Pressure Warning", "Brake Pads Critically Worn" }

\* C25: a stored diagnosis_input holds every vital the rules read, the rear
\* brake wear equal to the front, and suspension, coolant, brake fluid,
\* transmission temperature and tire pressure at values no rule alerts on;
\* the rules of a diagnosis run all ten checks and raise only the five
\* alerts of the vitals the Dashboard lets the user set.
C25_StoredInputIsComplete ==
    DOMAIN diagnosis_input # {} =>
        /\ RuleKeysOf \union {RearKey} \subseteq DOMAIN diagnosis_input
        /\ diagnosis_input[RearKey] = diagnosis_input["brake_pad_wear_mm_front"]
        /\ diagnosis_input["suspension_health_pct"] >= 40
        /\ diagnosis_input["coolant_level_pct"] >= 30
        /\ diagnosis_input["brake_fluid_level_pct"] >= 20
        /\ diagnosis_input["transmission_fluid_temp_c"] <= 110
        /\ diagnosis_input["tire_pressure_psi_fl"] >= 20
        /\ VerdictShown =>
              /\ SeqToSet(rule_alerts) = {l \in AlertLabels : TableHolds(l, diagnosis_input)}
              /\ SeqToSet(rule_alerts) \subseteq DashboardLabels

\* A diagnosis whose five settable vitals all alert: five rule alerts.
C25_Witness ==
    /\ VerdictShown
    /\ SeqToSet(rule_alerts) = DashboardLabels
    /\ diagnosis_input["brake_pad_wear_mm_rear"] = 299

====
